---- MODULE Spec2Model ----
(***************************************************************************)
(* Model of the RAG chatbot backend (Backend/main.py, rag_engine.py,       *)
(* document_processor.py): the upload endpoint, the background ingestion   *)
(* task with its job record, the vector index, and the chat endpoints.     *)
(***************************************************************************)
EXTENDS Integers, Sequences, FiniteSets, TLC

VARIABLES
    job_status,     \* main.py:34  job_id -> job record
    task,           \* per job_id: position and locals of process_documents_task
    uploads,        \* UPLOAD_DIR: path -> content of the file saved there
    processed,      \* PROCESSED_DIR: job_ids whose metadata file is written
    index,          \* the Pinecone index: set of stored records
    escaped,        \* job_ids whose task let an exception escape
    chat_sessions,  \* main.py:35  session_id -> list of turns
    response,       \* the response of the last request served
    sent,           \* what that request posted to the generation backend
    text,           \* the text in the hands of extract_text_from_pdf
    inflight        \* request id -> locals of a chat handler at its await

jobvars == <<job_status, task, uploads, processed, index, escaped, text>>
chatvars == <<chat_sessions, response, sent, inflight>>
vars == <<job_status, task, uploads, processed, index, escaped,
          chat_sessions, response, sent, text, inflight>>

(***************************************************************************)
(* Bounds of the model                                                     *)
(***************************************************************************)
JobIds == {"j1", "j2"}          \* values uuid4 may return for job ids
BigDoc == 60                    \* chunks of the long document
SmallDoc == 3                   \* chunks of the short document
SmallBytes == 1000              \* size of an ordinary upload

(***************************************************************************)
(* Program constants                                                       *)
(***************************************************************************)
MaxUploadFiles == 15
MaxFileBytes == 10 * 1024 * 1024
batch_size == 100

\* d[key] = val on a Python dict
Assign(d, key, val) ==
    [k \in DOMAIN d \cup {key} |-> IF k = key THEN val ELSE d[k]]

Min(a, b) == IF a < b THEN a ELSE b
Max(a, b) == IF a > b THEN a ELSE b

(***************************************************************************)
(* Uploaded files.  A file is its name, its size in bytes and its content; *)
(* the content is described by the number of chunks the text splitter cuts *)
(* its extracted text into (0: the PDF has no extractable text).           *)
(***************************************************************************)
Chars(name) ==
    CASE name = "a.pdf" -> <<"a", ".", "p", "d", "f">>
      [] name = "b.pdf" -> <<"b", ".", "p", "d", "f">>
      [] name = "n.pdf" -> <<"n", ".", "p", "d", "f">>
      [] name = "c.txt" -> <<"c", ".", "t", "x", "t">>
      [] name = "pdf"   -> <<"p", "d", "f">>

\* str.endswith('.pdf')
EndsWithPdf(name) ==
    LET c == Chars(name)
        n == Len(c)
    IN  n >= 4 /\ SubSeq(c, n - 3, n) = <<".", "p", "d", "f">>

File(name, size, chunks) == [filename |-> name, size |-> size, textChunks |-> chunks]

A1   == File("a.pdf", SmallBytes, 1)
ABig == File("a.pdf", SmallBytes, BigDoc)
A3   == File("a.pdf", SmallBytes, SmallDoc)
B1   == File("b.pdf", SmallBytes, 1)
N0   == File("n.pdf", SmallBytes, 0)
Txt  == File("c.txt", SmallBytes, 1)
NoExt == File("pdf", SmallBytes, 1)
AtLimit == File("b.pdf", MaxFileBytes, 1)
Huge == File("b.pdf", MaxFileBytes + 1, 1)

TooMany == [i \in 1..(MaxUploadFiles + 1) |-> A1]

\* the upload requests drawn
Batches ==
    { <<AtLimit, A1>>, <<A1, ABig>>, <<B1, N0>>,
      <<Txt>>, <<A1, NoExt>>, <<A1, Huge>>, TooMany }

\* upload requests with short documents only
LightBatches ==
    { <<AtLimit, A1>>, <<A1, A3>>, <<B1, N0>>, <<A1, Huge>>, TooMany }

(***************************************************************************)
(* Messages are sequences of text pieces, so that a wrapped error message  *)
(* keeps the pieces it was built from.                                     *)
(***************************************************************************)
NoTextError == <<"No text could be extracted from PDF">>
EmbedErrors == {<<"embedding model failure">>}
UpsertErrors == {<<"index backend 503">>}
DiskErrors == {<<"disk write failure">>}

(***************************************************************************)
(* document_processor.py                                                   *)
(***************************************************************************)
create_chunksFromOne(n, source_file) ==
    [idx \in 1..n |-> [source |-> source_file,
                       chunk_id |-> idx,
                       total_chunks |-> n]]
\* create_chunks: one chunk object per piece of split_text's output
create_chunks(n, source_file) ==
    [idx \in 1..n |-> [source |-> source_file,
                       chunk_id |-> idx - 1,
                       total_chunks |-> n]]

\* Characters of a text: a word character, the blank, the line break, a
\* character outside the kept set, and a punctuation mark.
Whitespace == {" ", "\n"}
Punctuation == {".", "!", "?", ",", ";", ":"}
KeptMarks == Punctuation \cup {"-", "(", ")", "[", "]", "\"", "'"}
WordChars == {"a"}

\* the characters of t at the positions in keep, in their order
RECURSIVE Only(_, _, _)
Only(t, keep, k) ==
    IF k > Len(t) THEN <<>>
    ELSE (IF k \in keep THEN <<t[k]>> ELSE <<>>) \o Only(t, keep, k + 1)

\* line 45: every run of whitespace becomes one blank
CollapseWhitespace(t) ==
    LET blanks == [k \in 1..Len(t) |-> IF t[k] \in Whitespace THEN " " ELSE t[k]]
    IN  Only(blanks, {k \in 1..Len(t) :
                        t[k] \notin Whitespace \/ k = 1 \/ t[k - 1] \notin Whitespace}, 1)

\* line 47: the characters outside the kept set are removed
RemoveSpecial(t) ==
    Only(t, {k \in 1..Len(t) : t[k] \in WordChars \cup Whitespace \cup KeptMarks}, 1)

\* line 49: a run of whitespace that ends at one of . ! ? , ; : is removed
TightenPunctuation(t) ==
    Only(t, {k \in 1..Len(t) :
                ~(/\ t[k] \in Whitespace
                  /\ \E m \in (k + 1)..Len(t) :
                        /\ t[m] \in Punctuation
                        /\ \A n \in k..(m - 1) : t[n] \in Whitespace)}, 1)

\* str.strip()
Strip(t) ==
    Only(t, {k \in 1..Len(t) :
                /\ \E m \in 1..k : t[m] \notin Whitespace
                /\ \E m \in k..Len(t) : t[m] \notin Whitespace}, 1)

\* clean_text, lines 42-53
clean_text(t) == Strip(TightenPunctuation(RemoveSpecial(CollapseWhitespace(t))))

\* extract_text_from_pdf: raises when the file has no text
ExtractFails(content) == content = 0

\* process_pdf: the chunks, or the wrapped error message
process_pdf_error(filename, cause) ==
    <<"Error processing PDF ", filename, ": ",
      "Error extracting text from PDF: ">> \o cause

(***************************************************************************)
(* rag_engine.py: store_embeddings                                         *)
(***************************************************************************)
\* str(n): the decimal digits of n
RECURSIVE Digits(_)
Digits(n) == IF n < 10 THEN <<n>> ELSE Digits(n \div 10) \o <<n % 10>>

VectorIdOfChunkId(job_id, chunk, idx) ==
    <<job_id, "_">> \o Chars(chunk.source) \o <<"_">> \o Digits(chunk.chunk_id)
\* vector id f"{job_id}_{source}_{idx}" with idx the position in all_chunks:
\* the characters of the id, the uuid as one token
VectorId(job_id, chunk, idx) ==
    <<job_id, "_">> \o Chars(chunk.source) \o <<"_">> \o Digits(idx)

Vectors(chunks, job_id) ==
    [k \in 1..Len(chunks) |->
        [id |-> VectorId(job_id, chunks[k], k - 1),
         source |-> chunks[k].source,
         chunk_id |-> chunks[k].chunk_id,
         job_id |-> job_id]]

BatchShort(vectors, i) ==
    SubSeq(vectors, i + 1, Min(i + batch_size, Len(vectors)) - 1)
\* vectors[i:i + batch_size], i a 0-based offset
Batch(vectors, i) == SubSeq(vectors, i + 1, Min(i + batch_size, Len(vectors)))

NextOffsetStuck(i) == i
\* range(0, len(vectors), batch_size): the offset after i
NextOffset(i) == i + batch_size

\* index.upsert: a record replaces the stored record with the same id
Upsert(idx, batch) ==
    LET new == {batch[k] : k \in 1..Len(batch)}
        ids == {r.id : r \in new}
    IN  {r \in idx : r.id \notin ids} \cup new

store_error(cause) == <<"Error storing embeddings: ">> \o cause
embed_error(cause) == <<"Error generating embeddings: ">> \o cause

(***************************************************************************)
(* main.py: upload_files                                                   *)
(***************************************************************************)
\* uuid4 returns an identifier not handed out before
UsedIds == DOMAIN job_status \cup {p[1] : p \in DOMAIN uploads}
FreshIdsReused == JobIds
FreshIds == JobIds \ UsedIds

FileOk(f) == EndsWithPdf(f.filename) /\ ~(f.size > MaxFileBytes)

\* position of the first file the loop rejects, 0 when none
FirstBad(files) ==
    IF \A k \in 1..Len(files) : FileOk(files[k]) THEN 0
    ELSE CHOOSE k \in 1..Len(files) :
            ~FileOk(files[k]) /\ \A m \in 1..(k - 1) : FileOk(files[m])

FilePath(job_id, filename) == <<job_id, filename>>

\* the files[1..n] written in order; a later write to a path replaces it
RECURSIVE SaveFiles(_, _, _, _)
SaveFiles(store, job_id, files, n) ==
    IF n = 0 THEN store
    ELSE LET before == SaveFiles(store, job_id, files, n - 1)
             path == FilePath(job_id, files[n].filename)
         IN  [p \in DOMAIN before \cup {path} |->
                 IF p = path THEN files[n].textChunks ELSE before[p]]

FileInfos(job_id, files) ==
    [k \in 1..Len(files) |->
        [filename |-> files[k].filename,
         path |-> FilePath(job_id, files[k].filename),
         size |-> files[k].size]]

\* what a handler returns: the status code and the body (or error detail)
Reply(op, code, body) == [op |-> op, code |-> code, body |-> body]

NoReply == Reply("none", 0, <<>>)
NoPrompt == [prompt |-> <<>>, query |-> <<>>, called |-> FALSE]

NewJob(files, file_paths) ==
    [status |-> "pending",
     progress |-> 0,
     message |-> <<"Files uploaded, processing started">>,
     files_processed |-> 0,
     total_files |-> Len(files),
     files |-> file_paths]

\* the task's locals; calls holds the batches index.upsert has taken so far
NewTask(file_paths) ==
    [pc |-> "start", file_paths |-> file_paths, idx |-> 0,
     all_chunks |-> <<>>, i |-> 0, error |-> <<>>, calls |-> <<>>]

ValidatedAlways(bad) == TRUE
\* lines 83-104: the job is registered when the loop over the files raised nothing
Validated(bad) == bad = 0

upload_files(files) ==
    IF Len(files) > MaxUploadFiles
    THEN /\ response' = Reply("upload", 400, <<"Maximum 15 files allowed">>)
         /\ sent' = NoPrompt
         /\ UNCHANGED <<jobvars, chat_sessions, inflight>>
    ELSE \E job_id \in FreshIds :
           LET bad == FirstBad(files)
               saved == IF bad = 0 THEN Len(files) ELSE bad - 1
               file_paths == FileInfos(job_id, files)
           IN  /\ uploads' = SaveFiles(uploads, job_id, files, saved)
               /\ IF Validated(bad)
                  THEN /\ job_status' = Assign(job_status, job_id, NewJob(files, file_paths))
                       /\ task' = Assign(task, job_id, NewTask(file_paths))
                  ELSE UNCHANGED <<job_status, task>>
               /\ response' =
                    IF bad = 0
                    THEN Reply("upload", 200, <<job_id, Len(files)>>)
                    ELSE IF ~EndsWithPdf(files[bad].filename)
                    THEN Reply("upload", 400,
                               <<"Only PDF files allowed: ", files[bad].filename>>)
                    ELSE Reply("upload", 400,
                               <<"File too large: ", files[bad].filename>>)
               /\ sent' = NoPrompt
               /\ UNCHANGED <<processed, index, escaped, chat_sessions, text, inflight>>

(***************************************************************************)
(* main.py: process_documents_task, one action per step of the task        *)
(***************************************************************************)
SetJobOfAll(job_id, rec) == [j \in DOMAIN job_status |-> rec]
\* job_status[job_id] = ..., job_status[job_id][key] = ...
SetJob(job_id, rec) == [job_status EXCEPT ![job_id] = rec]

ChunkProgressOfHundred(idx, n) == ((idx + 1) * 100) \div n
\* int((idx / len(file_paths)) * 50)
ChunkProgress(idx, n) == (idx * 50) \div n

InTryChunkingOnly(step) == step \in {"start", "iter", "process", "embed_begin"}
\* the steps of the task that lie inside its try block (lines 123-158)
InTry(step) == step \in {"start", "iter", "process", "embed_begin", "embed",
                         "upsert", "metadata", "complete"}

RaiseKeepsStatus(job_id, step, e, cause) ==
    /\ job_status' = [job_status EXCEPT ![job_id].message = <<"Error: ">> \o e]
    /\ task' = [task EXCEPT ![job_id].pc = "done", ![job_id].error = cause]
    /\ UNCHANGED escaped
\* an exception e raised at a step: lines 159-161 when it is caught
Raise(job_id, step, e, cause) ==
    IF InTry(step)
    THEN /\ job_status' = SetJob(job_id,
                [job_status[job_id] EXCEPT !.status = "failed",
                                           !.message = <<"Error: ">> \o e])
         /\ task' = [task EXCEPT ![job_id].pc = "done", ![job_id].error = cause]
         /\ UNCHANGED escaped
    ELSE /\ escaped' = escaped \cup {job_id}
         /\ task' = [task EXCEPT ![job_id].pc = "done", ![job_id].error = cause]
         /\ UNCHANGED job_status

MoreFilesNever(idx, n) == FALSE
\* line 129: the loop over file_paths has a document at position idx
MoreFiles(idx, n) == idx < n

\* lines 124-127
TaskStart(job_id) ==
    /\ task[job_id].pc = "start"
    /\ job_status' = SetJob(job_id,
            [job_status[job_id] EXCEPT !.status = "processing",
                                       !.message = <<"Extracting text from PDFs">>])
    /\ task' = [task EXCEPT ![job_id].pc =
                    IF MoreFiles(0, Len(task[job_id].file_paths))
                    THEN "iter" ELSE "embed_begin"]
    /\ UNCHANGED <<uploads, processed, index, escaped>>

\* lines 130-131
IterBegin(job_id) ==
    LET t == task[job_id]
        file_info == t.file_paths[t.idx + 1]
    IN  /\ t.pc = "iter"
        /\ job_status' = SetJob(job_id,
                [job_status[job_id] EXCEPT
                    !.progress = ChunkProgress(t.idx, Len(t.file_paths)),
                    !.message = <<"Processing ", file_info.filename>>])
        /\ task' = [task EXCEPT ![job_id].pc = "process"]
        /\ UNCHANGED <<uploads, processed, index, escaped>>

\* lines 134-137
ProcessPdf(job_id) ==
    LET t == task[job_id]
        file_info == t.file_paths[t.idx + 1]
        content == uploads[file_info.path]
    IN  /\ t.pc = "process"
        /\ IF ExtractFails(content)
           THEN Raise(job_id, "process",
                      process_pdf_error(file_info.filename, NoTextError), NoTextError)
           ELSE /\ job_status' = SetJob(job_id,
                        [job_status[job_id] EXCEPT !.files_processed = t.idx + 1])
                /\ task' = [task EXCEPT
                        ![job_id].all_chunks =
                            t.all_chunks \o create_chunks(content, file_info.filename),
                        ![job_id].idx = t.idx + 1,
                        ![job_id].pc = IF MoreFiles(t.idx + 1, Len(t.file_paths))
                                       THEN "iter" ELSE "embed_begin"]
                /\ UNCHANGED escaped
        /\ UNCHANGED <<uploads, processed, index>>

\* lines 140-141
EmbedBegin(job_id) ==
    /\ task[job_id].pc = "embed_begin"
    /\ job_status' = SetJob(job_id,
            [job_status[job_id] EXCEPT !.progress = 60,
                                       !.message = <<"Generating embeddings">>])
    /\ task' = [task EXCEPT ![job_id].pc = "embed"]
    /\ UNCHANGED <<uploads, processed, index, escaped>>

\* store_embeddings lines 70-88: the embeddings and the vectors
GenerateEmbeddings(job_id) ==
    /\ task[job_id].pc = "embed"
    /\ \/ /\ task' = [task EXCEPT ![job_id].i = 0,
                        ![job_id].pc = IF Len(task[job_id].all_chunks) = 0
                                       THEN "metadata" ELSE "upsert"]
          /\ UNCHANGED <<job_status, escaped>>
       \/ \E cause \in EmbedErrors :
             Raise(job_id, "embed", store_error(embed_error(cause)), cause)
    /\ UNCHANGED <<uploads, processed, index>>

AfterUpsertFailureRollsBack(idx, job_id) == {r \in idx : r.job_id # job_id}
\* store_embeddings lines 96-97: the handler re-raises and deletes nothing
AfterUpsertFailure(idx, job_id) == idx

\* store_embeddings lines 92-97: one iteration of the batch loop
UpsertBatch(job_id) ==
    LET t == task[job_id]
        vectors == Vectors(t.all_chunks, job_id)
    IN  /\ t.pc = "upsert"
        /\ \/ /\ index' = Upsert(index, Batch(vectors, t.i))
              /\ task' = [task EXCEPT ![job_id].i = NextOffset(t.i),
                            ![job_id].calls = Append(t.calls, Batch(vectors, t.i)),
                            ![job_id].pc = IF NextOffset(t.i) < Len(vectors)
                                           THEN "upsert" ELSE "metadata"]
              /\ UNCHANGED <<job_status, escaped>>
           \/ /\ \E cause \in UpsertErrors :
                    Raise(job_id, "upsert", store_error(cause), cause)
              /\ index' = AfterUpsertFailure(index, job_id)
        /\ UNCHANGED <<uploads, processed>>

\* lines 146-153
SaveMetadata(job_id) ==
    /\ task[job_id].pc = "metadata"
    /\ \/ /\ processed' = processed \cup {job_id}
          /\ task' = [task EXCEPT ![job_id].pc = "complete"]
          /\ UNCHANGED <<job_status, escaped>>
       \/ /\ \E cause \in DiskErrors : Raise(job_id, "metadata", cause, cause)
          /\ UNCHANGED processed
    /\ UNCHANGED <<uploads, index>>

\* lines 155-157
Complete(job_id) ==
    /\ task[job_id].pc = "complete"
    /\ job_status' = SetJob(job_id,
            [job_status[job_id] EXCEPT !.status = "completed",
                                       !.progress = 100,
                                       !.message = <<"Processing completed successfully">>])
    /\ task' = [task EXCEPT ![job_id].pc = "done"]
    /\ UNCHANGED <<uploads, processed, index, escaped>>

TaskStep(job_id) ==
    /\ \/ TaskStart(job_id)
       \/ IterBegin(job_id)
       \/ ProcessPdf(job_id)
       \/ EmbedBegin(job_id)
       \/ GenerateEmbeddings(job_id)
       \/ UpsertBatch(job_id)
       \/ SaveMetadata(job_id)
       \/ Complete(job_id)
    /\ UNCHANGED <<chatvars, text>>

\* main.py:163-171
get_upload_status(job_id) ==
    /\ response' = IF job_id \notin DOMAIN job_status
                   THEN Reply("status", 404, <<"Job not found">>)
                   ELSE Reply("status", 200, <<job_id>>)
    /\ sent' = NoPrompt
    /\ UNCHANGED <<jobvars, chat_sessions, inflight>>

(***************************************************************************)
(* Texts of the chat path.  A text is a sequence of pieces; a piece is the *)
(* characters lo..hi-1 of one part of the prompt, and lit marks the pieces *)
(* that are the literal "Question:".  Slicing and length are computed on   *)
(* the pieces as Python computes them on the characters.                   *)
(***************************************************************************)
Piece(part, lit, lo, hi) == [part |-> part, lit |-> lit, lo |-> lo, hi |-> hi]

Str(part, n) == IF n <= 0 THEN <<>> ELSE <<Piece(part, FALSE, 0, n)>>

QuestionLit == 9                \* len("Question:")

RECURSIVE TLen(_)
TLen(t) == IF t = <<>> THEN 0 ELSE (t[1].hi - t[1].lo) + TLen(Tail(t))

\* the first k characters, 0 <= k
RECURSIVE TTake(_, _)
TTake(t, k) ==
    IF k <= 0 \/ t = <<>> THEN <<>>
    ELSE LET p == t[1]
             n == p.hi - p.lo
         IN  IF n <= k THEN <<p>> \o TTake(Tail(t), k - n)
             ELSE <<[p EXCEPT !.hi = p.lo + k]>>

\* all but the first k characters, 0 <= k
RECURSIVE TDrop(_, _)
TDrop(t, k) ==
    IF t = <<>> THEN <<>>
    ELSE IF k <= 0 THEN t
    ELSE LET p == t[1]
             n == p.hi - p.lo
         IN  IF n <= k THEN TDrop(Tail(t), k - n)
             ELSE <<[p EXCEPT !.lo = p.lo + k]>> \o Tail(t)

\* s[:k]: a negative k counts from the end
SliceTo(t, k) == IF k >= 0 THEN TTake(t, k) ELSE TTake(t, Max(0, TLen(t) + k))

\* s[k:], k >= 0
SliceFrom(t, k) == TDrop(t, k)

\* s.rfind("Question:"): the offset of the last whole literal, -1 when none
RFindQuestion(t) ==
    LET occ == {k \in 1..Len(t) : t[k].lit /\ t[k].hi - t[k].lo = QuestionLit}
    IN  IF occ = {} THEN -1
        ELSE LET last == CHOOSE k \in occ : \A m \in occ : m <= k
             IN  TLen(SubSeq(t, 1, last - 1))

\* a message text: its length and the offset of a "Question:" in it (-1: none)
Msg(kind, len, mark) == [kind |-> kind, len |-> len, mark |-> mark]

\* the pieces of the question as it stands in the prompt
QueryText(q) ==
    IF q.mark < 0 THEN Str("query", q.len)
    ELSE (IF q.mark = 0 THEN <<>> ELSE <<Piece("query", FALSE, 0, q.mark)>>)
         \o <<Piece("query", TRUE, q.mark, q.mark + QuestionLit)>>
         \o (IF q.mark + QuestionLit = q.len THEN <<>>
             ELSE <<Piece("query", FALSE, q.mark + QuestionLit, q.len)>>)

(***************************************************************************)
(* rag_engine.py: retrieve_context, call_llm_api, get_response             *)
(***************************************************************************)
top_k == 5
max_length == 2500
TruncationSlack == 100
FallbackLen == 88
HeadLen == 105                  \* the prompt up to "Context from documents:\n"
TailLen == 347                  \* "\n\nInstructions: ... Answer:"
HistoryHeadLen == 23            \* "Previous conversation:\n"
MarkerLen == 19                 \* "\n...[truncated]...\n"
SourceTagLen == 33              \* "[Source: a.pdf, Relevance: 0.87]\n"

Fallback == Msg("fallback", FallbackLen, -1)

NoContextsNever(n) == FALSE
\* `if not contexts`
NoContexts(n) == n = 0

\* index.query with top_k: the number of matches returned
retrieve_context(idx) == Min(top_k, Cardinality(idx))

\* "\n\n".join of one block per match, each block the tag and the chunk text
context_text(n, textLen) == n * (SourceTagLen + textLen) + 2 * (n - 1)

RoleLen(role) == IF role = "user" THEN 4 ELSE 9

\* history[-4:]
recent_history(history) ==
    SubSeq(history, Max(1, Len(history) - 3), Len(history))

\* "\n".join of f"{ROLE}: {content}" over the recent turns: its length
RECURSIVE LinesLen(_)
LinesLen(turns) ==
    IF turns = <<>> THEN 0
    ELSE RoleLen(turns[1].role) + 2 + turns[1].content.len
         + (IF Len(turns) > 1 THEN 1 ELSE 0) + LinesLen(Tail(turns))

history_text(history) ==
    IF history = <<>> THEN 0 ELSE LinesLen(recent_history(history))

\* lines 227-241: the prompt handed to call_llm_api
BuildPrompt(ctxLen, histLen, query) ==
    Str("head", HeadLen) \o Str("context", ctxLen) \o Str("sep", 2)
    \o (IF histLen > 0
        THEN Str("history_head", HistoryHeadLen) \o Str("history", histLen)
             \o Str("history_sep", 2)
        ELSE <<>>)
    \o <<Piece("label", FALSE, 0, 5),
         Piece("label", TRUE, 5, 5 + QuestionLit),
         Piece("label", FALSE, 5 + QuestionLit, 6 + QuestionLit)>>
    \o QueryText(query)
    \o Str("tail", TailLen)

\* call_llm_api lines 146-158
TruncatePrompt(prompt) ==
    IF TLen(prompt) > max_length
    THEN LET question_start == RFindQuestion(prompt)
         IN  IF question_start > 0
             THEN LET context_part == SliceTo(prompt, question_start)
                      question_part == SliceFrom(prompt, question_start)
                      available_space ==
                          max_length - TLen(question_part) - TruncationSlack
                  IN  SliceTo(context_part, available_space)
                      \o Str("truncated", MarkerLen)
                      \o question_part
             ELSE SliceTo(prompt, max_length)
    ELSE prompt

\* the outcomes of the POST to the generation backend and of reading its reply
LlmOutcomes == {"ok", "request_error", "bad_format", "parse_error"}

llm_error(outcome) ==
    CASE outcome = "request_error" -> <<"Sarvam AI API error: ", "request failed">>
      [] outcome = "bad_format" -> <<"Unexpected response format from Sarvam AI">>
      [] outcome = "parse_error" -> <<"Error parsing Sarvam AI response: ", "key">>

Posted(prompt, query) == [prompt |-> prompt, query |-> query, called |-> TRUE]

\* get_response: what it returns or raises, and what it posted to the backend.
\* retr is the outcome of the index query, env the rest of the environment.
get_response(query, history, idx, env) ==
    IF env.retr = "error"
    THEN [ok |-> FALSE, posted |-> NoPrompt,
          error |-> <<"Error generating response: ", "Error retrieving context: ",
                      "index query failed">>]
    ELSE LET n == retrieve_context(idx)
         IN  IF NoContexts(n)
             THEN [ok |-> TRUE, posted |-> NoPrompt,
                   response |-> Fallback, sources |-> 0]
             ELSE LET prompt == BuildPrompt(context_text(n, env.textLen),
                                            history_text(history), query)
                      posted == Posted(TruncatePrompt(prompt), query)
                  IN  IF env.llm = "ok"
                      THEN [ok |-> TRUE, posted |-> posted,
                            response |-> Msg("answer", env.answerLen, -1),
                            sources |-> Min(3, n)]
                      ELSE [ok |-> FALSE, posted |-> posted,
                            error |-> <<"Error generating response: ">>
                                      \o llm_error(env.llm)]

(***************************************************************************)
(* main.py: chat, get_chat_history, clear_chat                             *)
(***************************************************************************)
Turn(role, content) == [role |-> role, content |-> content]

\* the turns the history endpoint shows for a session
History(sessions, session_id) ==
    IF session_id \in DOMAIN sessions THEN sessions[session_id] ELSE <<>>

ExchangeUserOnly(query, answer) == <<Turn("user", query)>>
\* lines 195-204: the two turns a successful exchange appends
Exchange(query, answer) == <<Turn("user", query), Turn("assistant", answer)>>

AfterFailureKeepsQuestion(history, query) == history \o <<Turn("user", query)>>
\* lines 212-216: the history when get_response raised
AfterFailure(history, query) == history

\* lines 178-216; sid = "" stands for a request without session_id
chat(sid, query, env, ids) ==
    \E session_id \in (IF sid = "" THEN ids \ DOMAIN chat_sessions ELSE {sid}) :
        LET sessions == IF session_id \notin DOMAIN chat_sessions
                        THEN Assign(chat_sessions, session_id, <<>>)
                        ELSE chat_sessions
            history == sessions[session_id]
            result == get_response(query, history, index, env)
        IN  /\ sent' = result.posted
            /\ IF result.ok
               THEN /\ chat_sessions' =
                        [sessions EXCEPT ![session_id] =
                            history \o Exchange(query, result.response)]
                    /\ response' = Reply("chat", 200,
                            [response |-> result.response,
                             sources |-> result.sources,
                             session_id |-> session_id])
               ELSE /\ chat_sessions' =
                        [sessions EXCEPT ![session_id] = AfterFailure(history, query)]
                    /\ response' = Reply("chat", 500,
                            <<"Error generating response: ">> \o result.error)
            /\ UNCHANGED <<jobvars, inflight>>

\* lines 218-226
get_chat_history(session_id) ==
    /\ response' = Reply("history", 200,
                        [session_id |-> session_id,
                         history |-> History(chat_sessions, session_id)])
    /\ sent' = NoPrompt
    /\ UNCHANGED <<jobvars, chat_sessions, inflight>>

ClearedOrCreated(sessions, session_id) == Assign(sessions, session_id, <<>>)
\* lines 231-232: the history of a known session is replaced by an empty list
Cleared(sessions, session_id) ==
    IF session_id \in DOMAIN sessions
    THEN [sessions EXCEPT ![session_id] = <<>>]
    ELSE sessions

\* lines 228-236
clear_chat(session_id) ==
    /\ chat_sessions' = Cleared(chat_sessions, session_id)
    /\ response' = Reply("clear", 200, <<session_id>>)
    /\ sent' = NoPrompt
    /\ UNCHANGED <<jobvars, inflight>>

(***************************************************************************)
(* main.py: chat as two steps.  The handler awaits get_response at line    *)
(* 189; when get_response yields to the event loop there, other handlers   *)
(* run before the handler goes on.  A handler that goes on at once is the  *)
(* schedule of a get_response that never yields.                           *)
(***************************************************************************)
AppendedToSeen(current, seen, exchange) == seen \o exchange
\* lines 195-204: both appends go to the list chat_sessions[session_id] holds
\* when they run; seen is the content get_response was called with
Appended(current, seen, exchange) == current \o exchange

\* lines 178-189: up to the call of get_response
chat_begin(rid, session_id, query, env) ==
    LET sessions == IF session_id \notin DOMAIN chat_sessions
                    THEN Assign(chat_sessions, session_id, <<>>)
                    ELSE chat_sessions
        history == sessions[session_id]
        result == get_response(query, history, index, env)
    IN  /\ rid \notin DOMAIN inflight
        /\ chat_sessions' = sessions
        /\ sent' = result.posted
        /\ inflight' = Assign(inflight, rid,
                [pc |-> "await", session_id |-> session_id, query |-> query,
                 history |-> history, result |-> result])
        /\ UNCHANGED <<jobvars, response>>

\* lines 189-216: from the return of get_response to the response
chat_end(rid) ==
    LET h == inflight[rid]
        session_id == h.session_id
    IN  /\ h.pc = "await"
        /\ inflight' = [inflight EXCEPT ![rid].pc = "returned"]
        /\ IF h.result.ok
           THEN /\ chat_sessions' =
                    [chat_sessions EXCEPT ![session_id] =
                        Appended(chat_sessions[session_id], h.history,
                                 Exchange(h.query, h.result.response))]
                /\ response' = Reply("chat", 200,
                        [response |-> h.result.response,
                         sources |-> h.result.sources,
                         session_id |-> session_id])
           ELSE /\ chat_sessions' =
                    [chat_sessions EXCEPT ![session_id] =
                        AfterFailure(chat_sessions[session_id], h.query)]
                /\ response' = Reply("chat", 500,
                        <<"Error generating response: ">> \o h.result.error)
        /\ UNCHANGED <<jobvars, sent>>

(***************************************************************************)
(* Requests and environment outcomes drawn                                 *)
(***************************************************************************)
SessionIds == {"s1", "s2"}      \* session ids sent, and values of uuid4
MaxExchanges == 2               \* chat exchanges per session, ChatSpec
MaxPromptExchanges == 3         \* chat exchanges of the session, PromptSpec
ShortQuestion == 12
MarkedQuestion == 40            \* a question with "Question:" inside it
MarkAt == 8
LongQuestion == 2100
ShortChunk == 50                \* length of a short chunk text
chunk_size == 1500
AnswerLen == 30

QShort == Msg("query", ShortQuestion, -1)
QMark == Msg("query", MarkedQuestion, MarkAt)
QLong == Msg("query", LongQuestion, -1)
Queries == {QShort, QMark, QLong}
FewQueries == {QShort, QMark}

\* the environment of one chat request: the index query fails, or it
\* succeeds and the chunk texts and the backend's outcome are as drawn
Envs(textLens) ==
    {[retr |-> "error", llm |-> "ok", textLen |-> ShortChunk, answerLen |-> AnswerLen]}
    \cup [retr : {"ok"}, llm : LlmOutcomes,
          textLen : textLens, answerLen : {AnswerLen}]

\* records a run of an earlier process left in the index
Persisted(n) == Upsert({}, Vectors(create_chunks(n, "a.pdf"), "j0"))

(***************************************************************************)
(* Specification of the whole service                                      *)
(***************************************************************************)
Init ==
    /\ job_status = <<>>
    /\ task = <<>>
    /\ uploads = <<>>
    /\ processed = {}
    /\ index = {}
    /\ escaped = {}
    /\ chat_sessions = <<>>
    /\ response = NoReply
    /\ sent = NoPrompt
    /\ text = <<>>
    /\ inflight = <<>>

Upload == \E files \in Batches : upload_files(files)
Run(job_id) == job_id \in DOMAIN task /\ TaskStep(job_id)
Ingest == \E job_id \in JobIds : Run(job_id)
Status == \E job_id \in JobIds : get_upload_status(job_id)
Chat ==
    \E sid \in {"s1"}, env \in Envs({ShortChunk}) :
        /\ Len(History(chat_sessions, sid)) < 2
        /\ chat(sid, QShort, env, {"s1"})
ShowHistory == \E sid \in {"s1"} : get_chat_history(sid)
Clear == \E sid \in {"s1"} : clear_chat(sid)

Next ==
    \/ Upload
    \/ Ingest
    \/ Status
    \/ Chat
    \/ ShowHistory
    \/ Clear

Spec == Init /\ [][Next]_vars

(***************************************************************************)
(* Specification of ingestion: uploads, status queries and the background  *)
(* tasks, which run once added and whose every step returns                *)
(***************************************************************************)
LightUpload == \E files \in LightBatches : upload_files(files)

IngestNext ==
    \/ LightUpload
    \/ Ingest
    \/ Status

FairSpec ==
    Init /\ [][IngestNext]_vars /\ \A job_id \in JobIds : WF_vars(Run(job_id))

(***************************************************************************)
(* Specification of the chat endpoints over an index that earlier runs     *)
(* have filled                                                             *)
(***************************************************************************)
ChatInit ==
    /\ job_status = <<>>
    /\ task = <<>>
    /\ uploads = <<>>
    /\ processed = {}
    /\ index \in {Persisted(0), Persisted(1), Persisted(top_k + 2)}
    /\ escaped = {}
    /\ chat_sessions = <<>>
    /\ response = NoReply
    /\ sent = NoPrompt
    /\ text = <<>>
    /\ inflight = <<>>

ChatAny ==
    \E sid \in SessionIds \cup {""}, query \in FewQueries,
       env \in Envs({ShortChunk, chunk_size}) :
        /\ sid # "" => Len(History(chat_sessions, sid)) < 2 * MaxExchanges
        /\ chat(sid, query, env, SessionIds)
ShowAny == \E sid \in SessionIds : get_chat_history(sid)
ClearAny == \E sid \in SessionIds : clear_chat(sid)

ChatNext ==
    \/ ChatAny
    \/ ShowAny
    \/ ClearAny

ChatSpec == ChatInit /\ [][ChatNext]_vars

(***************************************************************************)
(* Specification of prompt assembly: one session, every question drawn     *)
(***************************************************************************)
Ask ==
    \E query \in Queries, env \in Envs({ShortChunk, chunk_size}) :
        /\ Len(History(chat_sessions, "s1")) < 2 * MaxPromptExchanges
        /\ chat("s1", query, env, {"s1"})
Show == get_chat_history("s1")
Forget == clear_chat("s1")

PromptNext ==
    \/ Ask
    \/ Show
    \/ Forget

PromptSpec == ChatInit /\ [][PromptNext]_vars

(***************************************************************************)
(* Specification of the ingestion of one document, for the batch loop      *)
(***************************************************************************)
MaxFullBatches == 2

\* numbers of chunks around the multiples of batch_size
RecordCounts ==
    {n \in {k * batch_size + d : k \in 0..MaxFullBatches, d \in {-1, 0, 1}} : n > 0}

\* the state upload_files leaves for one accepted document
BatchInit ==
    \E n \in RecordCounts :
        LET files == <<File("a.pdf", SmallBytes, n)>>
            file_paths == FileInfos("j1", files)
        IN  /\ job_status = Assign(<<>>, "j1", NewJob(files, file_paths))
            /\ task = Assign(<<>>, "j1", NewTask(file_paths))
            /\ uploads = SaveFiles(<<>>, "j1", files, 1)
            /\ processed = {}
            /\ index = {}
            /\ escaped = {}
            /\ chat_sessions = <<>>
            /\ response = Reply("upload", 200, <<"j1", 1>>)
            /\ sent = NoPrompt
            /\ text = <<>>
            /\ inflight = <<>>

Work == Run("j1")
Watch == \E job_id \in JobIds : get_upload_status(job_id)

BatchNext ==
    \/ Work
    \/ Watch

BatchSpec == BatchInit /\ [][BatchNext]_vars

(***************************************************************************)
(* Specification of the text normaliser: clean_text applied to a text and  *)
(* to what it returned                                                     *)
(***************************************************************************)
MaxTextLen == 5
TextChars == {"a", " ", "\n", "#", "."}

RECURSIVE Texts(_)
Texts(n) ==
    IF n = 0 THEN {<<>>}
    ELSE Texts(n - 1) \cup {Append(t, c) : t \in {u \in Texts(n - 1) : Len(u) = n - 1},
                                         c \in TextChars}

CleanInit ==
    /\ job_status = <<>>
    /\ task = <<>>
    /\ uploads = <<>>
    /\ processed = {}
    /\ index = {}
    /\ escaped = {}
    /\ chat_sessions = <<>>
    /\ response = NoReply
    /\ sent = NoPrompt
    /\ text \in Texts(MaxTextLen)
    /\ inflight = <<>>

Normalise ==
    /\ text' = clean_text(text)
    /\ UNCHANGED <<job_status, task, uploads, processed, index, escaped, chatvars>>

CleanNext ==
    \/ Normalise

CleanSpec == CleanInit /\ [][CleanNext]_vars

(***************************************************************************)
(* Specification of chat requests in flight together                       *)
(***************************************************************************)
RequestIds == {"r1", "r2"}      \* the chat requests served

ChatBegin ==
    \E rid \in RequestIds, sid \in SessionIds, query \in FewQueries,
       env \in Envs({ShortChunk}) :
        chat_begin(rid, sid, query, env)
ChatEnd == \E rid \in DOMAIN inflight : chat_end(rid)

RaceNext ==
    \/ ChatBegin
    \/ ChatEnd
    \/ ShowAny

RaceSpec == ChatInit /\ [][RaceNext]_vars

(***************************************************************************)
(* Properties                                                              *)
(***************************************************************************)
Terminal == {"completed", "failed"}
Jobs == DOMAIN job_status

StatusStep(a, b) ==
    \/ a = b
    \/ a = "pending" /\ b = "processing"
    \/ a = "processing" /\ b \in Terminal

\* C1: a job is created pending, its status moves only pending -> processing
\* -> completed or failed, and no step of any operation changes the status of
\* a job that is completed or failed.
C1_StatusMachine ==
    [][\A j \in DOMAIN job_status' :
          IF j \in Jobs
          THEN StatusStep(job_status[j].status, job_status'[j].status)
          ELSE job_status'[j].status = "pending"]_vars

\* a completed job and a failed job, seen by a chat request served after them
C1_Witness ==
    /\ \E j \in Jobs : job_status[j].status = "completed"
    /\ \E j \in Jobs : job_status[j].status = "failed"
    /\ response.op = "chat"

\* the records the job's chunks make, as store_embeddings builds them
JobRecords(j) ==
    LET v == Vectors(task[j].all_chunks, j) IN {v[k] : k \in 1..Len(v)}

\* C2: when a job is completed, every chunk the job produced is a record of
\* the index, the job's metadata file is written, and files_processed equals
\* total_files.
C2_CompletedMeansStored ==
    \A j \in Jobs :
        job_status[j].status = "completed" =>
            /\ JobRecords(j) \subseteq index
            /\ Cardinality({r \in index : r.job_id = j}) = Len(task[j].all_chunks)
            /\ j \in processed
            /\ job_status[j].files_processed = job_status[j].total_files
            /\ Len(task[j].file_paths) = job_status[j].total_files

\* a completed job whose records took more than one upsert call
C2_Witness ==
    \E j \in Jobs :
        /\ job_status[j].status = "completed"
        /\ Len(task[j].all_chunks) > batch_size

IsSuffix(a, b) == Len(a) <= Len(b) /\ SubSeq(b, Len(b) - Len(a) + 1, Len(b)) = a

\* C3: a job whose task met an error while chunking, embedding or upserting is
\* failed, its message is "Error: " followed by the error's text, which ends
\* with the failure's own message, and no exception left the task.
C3_ErrorsFailTheJob ==
    /\ escaped = {}
    /\ \A j \in Jobs :
          task[j].error # <<>> =>
              /\ job_status[j].status = "failed"
              /\ job_status[j].message[1] = "Error: "
              /\ IsSuffix(task[j].error, job_status[j].message)
              /\ task[j].pc = "done"

\* one job failed on an upsert, another on a document without text, and the
\* chat endpoint answered afterwards
C3_Witness ==
    /\ \E j \in Jobs : task[j].error \in UpsertErrors
    /\ \E j \in Jobs : task[j].error = NoTextError
    /\ response.op = "chat" /\ response.code = 200

\* C4: under fair scheduling of the tasks, every job that was created reaches
\* completed or failed.
C4_JobsTerminate ==
    \A j \in JobIds :
        (j \in Jobs) ~> (j \in Jobs /\ job_status[j].status \in Terminal)

\* both tasks have run to their end, one to completed and one to failed
C4_Witness ==
    /\ \E j \in Jobs : task[j].pc = "done" /\ job_status[j].status = "completed"
    /\ \E j \in Jobs : task[j].pc = "done" /\ job_status[j].status = "failed"

\* C5: in every step, a job's progress does not decrease and is in 0..100;
\* a new job's progress is in 0..100.
C5_ProgressMonotone ==
    [][\A j \in DOMAIN job_status' :
          /\ job_status'[j].progress \in 0..100
          /\ j \in Jobs => job_status'[j].progress >= job_status[j].progress]_vars

\* a job that failed while chunking its second document, and one that completed
C5_Witness ==
    /\ \E j \in Jobs : job_status[j].status = "failed" /\ job_status[j].progress = 25
    /\ \E j \in Jobs : job_status[j].progress = 100

Alternates(h) ==
    /\ Len(h) % 2 = 0
    /\ \A k \in 1..Len(h) :
          h[k].role = IF k % 2 = 1 THEN "user" ELSE "assistant"

\* C6: every session's history has even length and alternates user,
\* assistant; a step leaves a history as it is, empties it, or appends one
\* user turn and one assistant turn to it.
C6_HistoryAlternates ==
    [][\A s \in DOMAIN chat_sessions' :
          LET old == History(chat_sessions, s)
              new == chat_sessions'[s]
          IN  /\ Alternates(new)
              /\ \/ new = old
                 \/ new = <<>>
                 \/ /\ Len(new) = Len(old) + 2
                    /\ SubSeq(new, 1, Len(old)) = old]_vars

\* a session holding two exchanges after a failed request and a clear
C6_Witness ==
    /\ \E s \in DOMAIN chat_sessions : Len(chat_sessions[s]) = 4
    /\ \E s \in DOMAIN chat_sessions : chat_sessions[s] = <<>>
    /\ response.op = "chat" /\ response.code = 500

C8_NoMatchesFallback ==
    index = {} =>
        \A q \in Queries, env \in Envs({ShortChunk, chunk_size}),
           s \in SessionIds \cup {""} :
            env.retr = "ok" =>
                get_response(q, History(chat_sessions, s), index, env)
                    = [ok |-> TRUE, posted |-> NoPrompt,
                       response |-> Fallback, sources |-> 0]

\* a chat request answered with the fixed answer
C8_Witness ==
    /\ index = {}
    /\ response.op = "chat" /\ response.code = 200
    /\ response.body.response = Fallback
    /\ response.body.sources = 0
    /\ ~sent.called

\* the question stands whole in the text
ContainsQuery(t, q) ==
    LET qt == QueryText(q)
    IN  \E k \in 1..(Len(t) - Len(qt) + 1) : SubSeq(t, k, k + Len(qt) - 1) = qt

\* C9: the prompt posted to the generation backend contains the whole
\* question.
C9_QuestionVerbatim ==
    sent.called => ContainsQuery(sent.prompt, sent.query)

\* C10: the prompt posted to the generation backend is at most max_length
\* characters long.
C10_PromptWithinLimit ==
    sent.called => TLen(sent.prompt) <= max_length

\* the piece stands whole in the text
HasPiece(t, piece) == \E k \in 1..Len(t) : t[k] = piece

Rejected ==
    /\ response'.op = "upload" /\ response'.code = 400
    /\ <<response, uploads>>' # <<response, uploads>>

\* C12: an upload rejected for the number of files, a file that is not a
\* PDF or a file over the size limit leaves the job map as it was and
\* schedules no task.
C12_RejectedCreatesNoJob ==
    [][Rejected => job_status' = job_status /\ task' = task]_vars

\* an upload rejected for an oversized file while an earlier job is pending
C12_Witness ==
    /\ response.op = "upload" /\ response.code = 400
    /\ response.body[1] = "File too large: "
    /\ \E j \in Jobs : job_status[j].status = "pending" /\ task[j].pc = "start"
    /\ \E p \in DOMAIN uploads : p[1] \notin Jobs

\* C13: an upload rejected for the number of files, a file that is not a
\* PDF or a file over the size limit, at any position of the batch, has
\* written no file to the upload storage.
C13_RejectedPersistsNothing ==
    [][Rejected => uploads' = uploads]_vars

RECURSIVE Flatten(_)
Flatten(seqs) == IF seqs = <<>> THEN <<>> ELSE seqs[1] \o Flatten(Tail(seqs))

\* store_embeddings returned without raising
Stored(t) ==
    \/ t.pc \in {"metadata", "complete"}
    \/ t.pc = "done" /\ t.error \in {<<>>} \cup DiskErrors

\* C14: every batch handed to index.upsert holds between 1 and batch_size
\* records; the batches joined in call order are the first records of the
\* job in their order, and all of them once store_embeddings has returned.
C14_BatchesPartitionRecords ==
    \A j \in DOMAIN task :
        LET t == task[j]
            vectors == Vectors(t.all_chunks, j)
            written == Flatten(t.calls)
        IN  /\ \A k \in 1..Len(t.calls) : Len(t.calls[k]) \in 1..batch_size
            /\ Len(written) <= Len(vectors)
            /\ written = SubSeq(vectors, 1, Len(written))
            /\ Stored(t) => written = vectors

\* a job stored in three calls, the last one with a single record
C14_Witness ==
    \E j \in DOMAIN task :
        /\ Stored(task[j])
        /\ Len(task[j].calls) = 3
        /\ Len(task[j].calls[3]) = 1

\* C15: when an upsert call of a job fails, the job is failed and its task
\* has ended; the index holds the records of the batches upserted before the
\* failure and no other record of the job, no batch was upserted after it,
\* and a chat query retrieves from an index that holds those records.
C15_PartialStoreStays ==
    \A j \in Jobs :
        task[j].error \in UpsertErrors =>
            LET t == task[j]
                committed == Flatten(t.calls)
            IN  /\ job_status[j].status = "failed"
                /\ t.pc = "done"
                /\ Len(committed) = t.i
                /\ {r \in index : r.job_id = j}
                      = {committed[k] : k \in 1..Len(committed)}
                /\ Cardinality({r \in index : r.job_id = j}) = Len(committed)
                /\ retrieve_context(index) >= Min(top_k, Len(committed))

\* a job failed on its second upsert call, and a chat request answered from
\* the records of its first batch, the only records of the index
C15_Witness ==
    /\ \E j \in Jobs :
          /\ task[j].error \in UpsertErrors
          /\ Len(task[j].calls) = 1
          /\ Cardinality({r \in index : r.job_id = j}) = batch_size
    /\ Cardinality(index) = batch_size
    /\ response.op = "chat" /\ response.code = 200
    /\ response.body.sources > 0

\* C16: no two records of the index have the same id, no two chunks of a
\* job get the same id, the records of the index that carry a job's id are
\* the records upserted for that job, each once, and as many as the job's
\* chunks once the job is completed.
C16_RecordIdsUnique ==
    /\ Cardinality({r.id : r \in index}) = Cardinality(index)
    /\ \A j \in DOMAIN task :
          LET vectors == Vectors(task[j].all_chunks, j)
              written == Flatten(task[j].calls)
              mine == {r \in index : r.job_id = j}
          IN  /\ Cardinality({vectors[k].id : k \in 1..Len(vectors)}) = Len(vectors)
              /\ mine = {written[k] : k \in 1..Len(written)}
              /\ Cardinality(mine) = Len(written)
              /\ job_status[j].status = "completed" =>
                    Cardinality(mine) = Len(task[j].all_chunks)

\* two completed jobs with a document of the same name, one of them with two
\* documents of that name chunked alike
C16_Witness ==
    \E j, k \in Jobs :
        /\ j # k
        /\ job_status[j].status = "completed"
        /\ job_status[k].status = "completed"
        /\ \E m, n \in 1..Len(task[j].all_chunks) :
              m < n /\ task[j].all_chunks[m] = task[j].all_chunks[n]
        /\ task[k].all_chunks # <<>>
        /\ \E m \in 1..Len(task[k].all_chunks) :
              task[k].all_chunks[m].source = task[j].all_chunks[1].source

\* C17: the chunks create_chunks returned for a document stand in a job's
\* chunk list with the index values 0, 1, ..., total_chunks - 1 in this
\* order, and each carries as total_chunks the number of pieces the
\* document's text was split into.
C17_ChunkIndexesInOrder ==
    \A j \in DOMAIN task :
        LET c == task[j].all_chunks
        IN  \A k \in 1..Len(c) :
                /\ c[k].total_chunks = uploads[FilePath(j, c[k].source)]
                /\ c[k].chunk_id \in 0..(c[k].total_chunks - 1)
                /\ IF c[k].chunk_id = 0
                   THEN k = 1 \/ c[k - 1].chunk_id = c[k - 1].total_chunks - 1
                   ELSE /\ k > 1
                        /\ c[k - 1].chunk_id = c[k].chunk_id - 1
                        /\ c[k - 1].source = c[k].source
                /\ k = Len(c) => c[k].chunk_id = c[k].total_chunks - 1

\* a job that chunked two documents of more than one chunk each
C17_Witness ==
    \E j \in DOMAIN task :
        LET c == task[j].all_chunks
        IN  /\ Len(c) = 2 * BigDoc
            /\ c[BigDoc].chunk_id = BigDoc - 1
            /\ c[BigDoc + 1].chunk_id = 0
            /\ c[Len(c)].total_chunks = BigDoc

\* C18: clean_text applied to a text it returned returns that text.
C18_CleanTextIdempotent ==
    [][text' = clean_text(text) => clean_text(text') = text']_vars

\* C19: a step that moves no task leaves every job record as it is (the
\* status, chat, history and clear endpoints, and a rejected upload); a step
\* that changes the record of a job is a step of that job's task and leaves
\* the records and the tasks of all other jobs as they are.
C19_JobRecordOwnedByItsTask ==
    [][/\ task' = task => job_status' = job_status
       /\ \A j \in Jobs :
             /\ j \in DOMAIN job_status'
             /\ job_status'[j] # job_status[j] =>
                   /\ task'[j] # task[j]
                   /\ \A k \in Jobs \ {j} :
                         job_status'[k] = job_status[k] /\ task'[k] = task[k]]_vars

\* two jobs in flight at different steps of their tasks, after a clear request
C19_Witness ==
    /\ \E j, k \in Jobs :
          /\ job_status[j].status = "processing" /\ task[j].pc = "upsert"
          /\ task[j].i = batch_size
          /\ job_status[k].status = "processing" /\ task[k].pc = "process"
          /\ job_status[k].files_processed = 1
    /\ response.op = "clear"

Chunking(t) == t.pc \in {"iter", "process", "embed_begin"}

\* C21: while a job's task is chunking its documents, the job's progress is
\* floor(50 * files_processed / total_files), which is 50 once the last
\* document is chunked.
C21_ProgressFollowsFiles ==
    \A j \in Jobs :
        Chunking(task[j]) =>
            job_status[j].progress =
                (50 * job_status[j].files_processed) \div job_status[j].total_files

\* the chunks of the first n documents of job j, document after document
RECURSIVE ChunksOf(_, _)
ChunksOf(j, n) ==
    IF n = 0 THEN <<>>
    ELSE LET file_info == task[j].file_paths[n]
         IN  ChunksOf(j, n - 1)
             \o create_chunks(uploads[file_info.path], file_info.filename)

\* store_embeddings of the job has been entered
Embedding(t) ==
    \/ t.pc \in {"embed", "upsert", "metadata", "complete"}
    \/ t.pc = "done" /\ t.error \in {<<>>} \cup EmbedErrors \cup UpsertErrors \cup DiskErrors

\* C22: a task's chunk list is the chunks of the documents it has chunked,
\* in upload order; when embedding has begun or the index holds a record of
\* the job, every document of the job is chunked; a job whose chunking
\* failed has no record in the index.
C22_EmbeddingAfterChunking ==
    \A j \in DOMAIN task :
        LET t == task[j]
            mine == {r \in index : r.job_id = j}
        IN  /\ t.idx <= Len(t.file_paths)
            /\ t.all_chunks = ChunksOf(j, t.idx)
            /\ (Embedding(t) \/ mine # {}) =>
                  /\ t.idx = Len(t.file_paths)
                  /\ job_status[j].files_processed = job_status[j].total_files
            /\ t.error = NoTextError => mine = {} /\ t.calls = <<>>

\* a job failed on its second document after chunking the first, with no
\* record in an index that holds the records of another job
C22_Witness ==
    \E j \in DOMAIN task :
        /\ task[j].error = NoTextError
        /\ task[j].idx = 1
        /\ task[j].all_chunks # <<>>
        /\ index # {}
        /\ \A r \in index : r.job_id # j

\* the requests that were answered 200 for the session
Answered(flights, s) ==
    {rid \in DOMAIN flights :
        /\ flights[rid].pc = "returned"
        /\ flights[rid].session_id = s
        /\ flights[rid].result.ok}

\* C23: with chat requests of a session in flight together, a request that
\* is answered 200 appends its user turn and its assistant turn, in this
\* order and next to each other, to the end of the session's history as it
\* is then; the history alternates, keeps every exchange appended before,
\* and holds one exchange for each request answered 200.
C23_ConcurrentChatsKeepPairs ==
    [][\A s \in DOMAIN chat_sessions' :
          LET old == History(chat_sessions, s)
              new == chat_sessions'[s]
              now == Answered(inflight', s) \ Answered(inflight, s)
          IN  /\ Alternates(new)
              /\ Len(new) = 2 * Cardinality(Answered(inflight', s))
              /\ \A rid \in now :
                    new = old \o Exchange(inflight[rid].query,
                                          inflight[rid].result.response)
              /\ now = {} => new = old]_vars

\* two requests of one session with different questions, both called with
\* the empty history, both answered 200: the history holds both exchanges
C23_Witness ==
    \E a, b \in DOMAIN inflight, s \in DOMAIN chat_sessions :
        /\ a # b
        /\ a \in Answered(inflight, s) /\ b \in Answered(inflight, s)
        /\ inflight[a].history = <<>> /\ inflight[b].history = <<>>
        /\ inflight[a].query # inflight[b].query
        /\ sent.called
        /\ chat_sessions[s] =
              Exchange(inflight[a].query, inflight[a].result.response)
              \o Exchange(inflight[b].query, inflight[b].result.response)

====
